---- MODULE Spec2Model ----
(***************************************************************************)
(* Model of vdsearch's ribozyme evidence classifier                        *)
(* (src/vdsearch/commands/ribozyme_filter.py) and of the pipeline step of  *)
(* src/vdsearch/commands/easy_search.py that consumes its result.          *)
(*                                                                         *)
(* Numbers.  Scores and cutoffs are whole bit scores.  E-values are fixed  *)
(* point numbers counted in units of 1/Scale (Scale = 100, so 1 is 0.01);  *)
(* max_evalue ** 0.5 is computed to the nearest unit, as the float power   *)
(* is computed to the nearest float.                                       *)
(*                                                                         *)
(* The hit table is kept as the set of its rows: every query of the code   *)
(* selects rows by a predicate on the row alone and keeps the seq_id       *)
(* column as a set, or the selected rows, so neither the row order nor a   *)
(* repeated row changes any value modelled here.                           *)
(*                                                                         *)
(* groupby(["ribozyme"]) is modelled as in the pandas releases the program *)
(* was written for (1.x): the group key is the profile name itself.        *)
(***************************************************************************)
EXTENDS Integers, Sequences, FiniteSets, TLC

\* ------------------------------------------------------------------ bounds
MaxLines == 5
MaxHits == 2

\* ------------------------------------------------------------ value domains
Scale == 10 * 10

CmCutoffType == {"GA", "NC", "TC"}

SeqIds == {"s1", "s2"}
Profiles == {"A", "B"}
\* the profile names in ascending order, the order groupby yields the groups
ProfileOrder == <<"A", "B">>
Strands == {"+", "-"}
\* the <<score, evalue>> of a hit: a strong hit, a hit with a high score and
\* a poor e-value, a hit with a low score and a good e-value
Measurements == {<<50, 5>>, <<50, 300>>, <<40, 5>>}
MaxEvalues == {1, 16, 900}

HitRecord ==
    {[seq_id |-> s, ribozyme |-> p, strand |-> d, score |-> m[1],
      evalue |-> m[2]] :
        s \in SeqIds, p \in Profiles, d \in Strands, m \in Measurements}

\* a line of a CM file, by the branch of the parser it takes and the second
\* whitespace-separated token it carries
Ln(kw, name, val) == [kw |-> kw, name |-> name, val |-> val]

LineAlphabet ==
    { Ln("INFERNAL", "", 0), Ln("NAME", "A", 0), Ln("NAME", "B", 0),
      Ln("GA", "", 45), Ln("GA", "", 35), Ln("TC", "", 50),
      Ln("NC", "", 30), Ln("OTHER", "", 0) }

CmFileTexts == UNION {[1..n -> LineAlphabet] : n \in 0..MaxLines}

\* ------------------------------------------------------------ parse_cm_file
ZeroCutoff == [GA |-> 0, TC |-> 0, NC |-> 0]

EmptyDict == [n \in {} |-> ZeroCutoff]

DictSet(d, k, v) == [n \in (DOMAIN d) \cup {k} |-> IF n = k THEN v ELSE d[n]]

ParseInit ==
    [cutoffs |-> EmptyDict, last_name |-> "", last_cutoff |-> ZeroCutoff]

FlushBlock(st) ==
    IF st.last_name # ""
    THEN DictSet(st.cutoffs, st.last_name, st.last_cutoff)
    ELSE st.cutoffs

ResetCutoff(st) == ZeroCutoff

ParseLine(st, line) ==
    IF line.kw = "INFERNAL"
    THEN [cutoffs |-> FlushBlock(st), last_name |-> "",
          last_cutoff |-> ResetCutoff(st)]
    ELSE IF line.kw = "NAME"
    THEN [st EXCEPT !.last_name = line.name]
    ELSE IF line.kw \in CmCutoffType
    THEN [st EXCEPT !.last_cutoff = [@ EXCEPT ![line.kw] = line.val]]
    ELSE st

\* the table without the block still open at the end of input
ParseEndNoFlush(st) == st.cutoffs

ParseEnd(st) == DictSet(st.cutoffs, st.last_name, st.last_cutoff)

RECURSIVE ParseLines(_, _, _)
ParseLines(st, lines, i) ==
    IF i > Len(lines) THEN st
    ELSE ParseLines(ParseLine(st, lines[i]), lines, i + 1)

parse_cm_file(lines) == ParseEnd(ParseLines(ParseInit, lines, 1))

\* ------------------------------------------------ inputs of the classifier
\* the reference CM files a run may be given; "None" is no file at all
CmFiles == {"None", "full.cm", "onlyA.cm"}

CmFileText(f) ==
    IF f = "full.cm"
    THEN << Ln("INFERNAL", "", 0), Ln("NAME", "A", 0), Ln("GA", "", 45),
            Ln("TC", "", 50), Ln("NC", "", 30),
            Ln("INFERNAL", "", 0), Ln("NAME", "B", 0), Ln("GA", "", 35) >>
    ELSE << Ln("INFERNAL", "", 0), Ln("NAME", "A", 0), Ln("GA", "", 45),
            Ln("TC", "", 50), Ln("NC", "", 30) >>

\* the tables of at most MaxHits rows
HitTables ==
    UNION {{{rows[i] : i \in 1..n} : rows \in [1..n -> HitRecord]} :
              n \in 0..MaxHits}

\* the options of ribozyme_filter_wrapper; an option the run never reads
\* (those of a filter that is switched off) is left at its default
Configs ==
    {c \in [use_cm_cutoff : BOOLEAN, cm_file : CmFiles,
            cm_cutoff_type : CmCutoffType, use_evalue_cutoff : BOOLEAN,
            max_evalue : MaxEvalues] :
        /\ ~c.use_cm_cutoff => (c.cm_file = "None" /\ c.cm_cutoff_type = "GA")
        /\ ~c.use_evalue_cutoff => c.max_evalue = 1}

\* the call of easy_search: only cm_file is passed, the rest are defaults
EasySearchConfigs ==
    {[use_cm_cutoff |-> TRUE, cm_file |-> f, cm_cutoff_type |-> "GA",
      use_evalue_cutoff |-> TRUE, max_evalue |-> 1] : f \in CmFiles}

\* ---------------------------------------------------------- ribozyme_filter
NoneResult ==
    [kind |-> "None", single_rzs |-> {}, double_rzs |-> {}, ribozy_likes |-> {}]

SeqIdOf(rows) == {h.seq_id : h \in rows}

GroupNames(df) == {h.ribozyme : h \in df}

GroupOf(df, rz_name) == {h \in df : h.ribozyme = rz_name}

Rank(n) == CHOOSE i \in 1..Len(ProfileOrder) : ProfileOrder[i] = n

FirstGroup(names) == CHOOSE n \in names : \A o \in names : Rank(n) <= Rank(o)

LoadCutoffs(c) ==
    IF c.use_cm_cutoff /\ c.cm_file # "None"
    THEN parse_cm_file(CmFileText(c.cm_file))
    ELSE EmptyDict

RECURSIVE FloorSqrt(_, _, _)
FloorSqrt(n, lo, hi) ==
    IF hi - lo <= 1 THEN lo
    ELSE LET mid == (lo + hi) \div 2
         IN  IF mid * mid <= n THEN FloorSqrt(n, mid, hi)
             ELSE FloorSqrt(n, lo, mid)

\* max_evalue ** 0.5, to the nearest unit
Pow05(m) ==
    LET n == m * Scale
        r == FloorSqrt(n, 0, n + 1)
    IN  IF n - r * r > r THEN r + 1 ELSE r

UsesCutoffs(c, cuts) == c.use_cm_cutoff /\ DOMAIN cuts # {}

GroupCutoff(cuts, rz_name, kind) == cuts[rz_name][kind]

\* a score equal to the cutoff counted as above it
AtOrAboveCutoff(h, cut) == h.score >= cut

AboveCutoff(h, cut) == h.score > cut

\* the e-value comparison turned round
EvalueAbove(h, threshold) == h.evalue > threshold

EvalueBelow(h, threshold) == h.evalue < threshold

\* max_evalue ** 2 in place of max_evalue ** 0.5
StrandThresholdSquared(max_evalue) == (max_evalue * max_evalue) \div Scale

StrandThreshold(max_evalue) == Pow05(max_evalue)

CutoffStrand(rz_df, strand, cut) ==
    SeqIdOf({h \in rz_df : h.strand = strand /\ AboveCutoff(h, cut)})

CutoffSignificant(rz_df, cut) == SeqIdOf({h \in rz_df : AboveCutoff(h, cut)})

EvalueStrand(rz_df, strand, max_evalue) ==
    SeqIdOf({h \in rz_df :
                h.strand = strand
                /\ EvalueBelow(h, StrandThreshold(max_evalue))})

EvalueSignificant(rz_df, max_evalue) ==
    SeqIdOf({h \in rz_df : EvalueBelow(h, max_evalue)})

\* assignment in place of set.update
SetAssign(old, new) == new

SetUpdate(old, new) == old \cup new

\* one pass of the loop body for one group; the three lookups of
\* cutoffs[rz_name] raise KeyError before any set is changed
KeyErrorIn(c, cuts, rz_name) ==
    UsesCutoffs(c, cuts) /\ rz_name \notin DOMAIN cuts

GroupBody(acc, rz_name, rz_df, c, cuts) ==
    LET afterCut ==
            IF UsesCutoffs(c, cuts)
            THEN LET cut == GroupCutoff(cuts, rz_name, c.cm_cutoff_type)
                 IN  [rz_plus |->
                          SetUpdate(acc.rz_plus, CutoffStrand(rz_df, "+", cut)),
                      rz_minus |->
                          SetUpdate(acc.rz_minus, CutoffStrand(rz_df, "-", cut)),
                      rz_significant |->
                          SetUpdate(acc.rz_significant,
                                    CutoffSignificant(rz_df, cut))]
            ELSE acc
    IN  IF c.use_evalue_cutoff
        THEN [rz_plus |->
                  SetUpdate(afterCut.rz_plus,
                            EvalueStrand(rz_df, "+", c.max_evalue)),
              rz_minus |->
                  SetUpdate(afterCut.rz_minus,
                            EvalueStrand(rz_df, "-", c.max_evalue)),
              rz_significant |->
                  SetUpdate(afterCut.rz_significant,
                            EvalueSignificant(rz_df, c.max_evalue))]
        ELSE afterCut

EmptySets == [rz_plus |-> {}, rz_minus |-> {}, rz_significant |-> {}]

\* the loop of lines 106-141 over the groups in the given order
RECURSIVE RunGroups(_, _, _, _, _, _)
RunGroups(acc, order, i, df, c, cuts) ==
    IF i > Len(order) THEN acc
    ELSE RunGroups(GroupBody(acc, order[i], GroupOf(df, order[i]), c, cuts),
                   order, i + 1, df, c, cuts)

DoubleRzIds(plus, minus) == plus \cap minus

\* the significant ids without the difference
SingleRzIdsKeepAll(significant, double) == significant

SingleRzIds(significant, double) == significant \ double

RibozyLikesIds(double, single) == double \cup single

\* the Polarity column: the dual label is written first, the single label
\* second; rows of neither keep no label
Polarity(h, single, double) ==
    IF h.seq_id \in single THEN "(+)"
    ELSE IF h.seq_id \in double THEN "(+) and (-)"
    ELSE "NaN"

Labelled(df, single, double) ==
    {[row |-> h, Polarity |-> Polarity(h, single, double)] : h \in df}

RowsIn(ldf, ids) == {r \in ldf : r.row.seq_id \in ids}

Views(df, single, double, likes) ==
    LET ldf == Labelled(df, single, double)
    IN  [kind |-> "views",
         single_rzs |-> RowsIn(ldf, single),
         double_rzs |-> RowsIn(ldf, double),
         ribozy_likes |-> RowsIn(ldf, likes)]

\* ------------------------------------------------------------------- state
VARIABLES
    cmLines,          \* parser run: the lines of the file being parsed
    lineNo,           \* parser run: number of lines consumed
    pst,              \* parser run: cutoffs, last_name, last_cutoff
    table,            \* parser run: the returned dictionary
    pcP,              \* parser run: "idle", "loop", "done"
    ribozymes,        \* the hit table read from infernal_tblout
    cfg,              \* the arguments of ribozyme_filter
    caller,           \* "wrapper" or "easy_search"
    pc,               \* "idle", "start", "groups", "returned", "raised"
    cutoffs,          \* the cutoff dictionary of the run
    todo,             \* names of the groups the loop has not yet reached
    rz_plus,
    rz_minus,
    rz_significant,
    double_rz_ids,
    single_rz_ids,
    ribozy_likes_ids,
    result,           \* the value ribozyme_filter returned
    written,          \* whether output_tsv was written
    outcome           \* of the caller: "running", "ok", "TypeError", "KeyError"

parserVars == <<cmLines, lineNo, pst, table, pcP>>

filterVars ==
    <<ribozymes, cfg, caller, pc, cutoffs, todo, rz_plus, rz_minus,
      rz_significant, double_rz_ids, single_rz_ids, ribozy_likes_ids,
      result, written, outcome>>

vars == <<parserVars, filterVars>>

ParserIdle ==
    /\ cmLines = << >>
    /\ lineNo = 0
    /\ pst = ParseInit
    /\ table = EmptyDict
    /\ pcP = "idle"

FilterIdle ==
    /\ ribozymes = {}
    /\ cfg = [use_cm_cutoff |-> TRUE, cm_file |-> "None",
              cm_cutoff_type |-> "GA", use_evalue_cutoff |-> TRUE,
              max_evalue |-> 1]
    /\ caller = "wrapper"
    /\ pc = "idle"
    /\ cutoffs = EmptyDict
    /\ todo = {}
    /\ rz_plus = {}
    /\ rz_minus = {}
    /\ rz_significant = {}
    /\ double_rz_ids = {}
    /\ single_rz_ids = {}
    /\ ribozy_likes_ids = {}
    /\ result = NoneResult
    /\ written = FALSE
    /\ outcome = "running"

\* ------------------------------------------------- parser, one line a step
InitParse ==
    /\ cmLines \in CmFileTexts
    /\ lineNo = 0
    /\ pst = ParseInit
    /\ table = EmptyDict
    /\ pcP = "loop"
    /\ FilterIdle

ReadLine(kws) ==
    /\ pcP = "loop"
    /\ lineNo < Len(cmLines)
    /\ cmLines[lineNo + 1].kw \in kws
    /\ pst' = ParseLine(pst, cmLines[lineNo + 1])
    /\ lineNo' = lineNo + 1
    /\ UNCHANGED <<cmLines, table, pcP, filterVars>>

ReadSentinel == ReadLine({"INFERNAL"})

ReadName == ReadLine({"NAME"})

ReadCutoff == ReadLine(CmCutoffType)

ReadOther == ReadLine({"OTHER"})

EndOfInput ==
    /\ pcP = "loop"
    /\ lineNo = Len(cmLines)
    /\ table' = ParseEnd(pst)
    /\ pcP' = "done"
    /\ UNCHANGED <<cmLines, lineNo, pst, filterVars>>

NextParse == ReadSentinel \/ ReadName \/ ReadCutoff \/ ReadOther \/ EndOfInput

SpecParse == InitParse /\ [][NextParse]_vars

\* ------------------------------------------- ribozyme_filter and its callers
Init ==
    /\ ParserIdle
    /\ ribozymes \in HitTables
    /\ \/ caller = "wrapper" /\ cfg \in Configs
       \/ caller = "easy_search" /\ cfg \in EasySearchConfigs
    /\ pc = "start"
    /\ cutoffs = EmptyDict
    /\ todo = {}
    /\ rz_plus = {}
    /\ rz_minus = {}
    /\ rz_significant = {}
    /\ double_rz_ids = {}
    /\ single_rz_ids = {}
    /\ ribozy_likes_ids = {}
    /\ result = NoneResult
    /\ written = FALSE
    /\ outcome = "running"

\* lines 92-98: no rows, return None before anything else is read
NoRibozymes ==
    /\ pc = "start"
    /\ ribozymes = {}
    /\ result' = NoneResult
    /\ pc' = "returned"
    /\ UNCHANGED <<parserVars, ribozymes, cfg, caller, cutoffs, todo, rz_plus,
                   rz_minus, rz_significant, double_rz_ids, single_rz_ids,
                   ribozy_likes_ids, written, outcome>>

\* lines 92-106: rows present, load the cutoffs, empty sets, group the rows
StartAnalysis ==
    /\ pc = "start"
    /\ ribozymes # {}
    /\ cutoffs' = LoadCutoffs(cfg)
    /\ rz_plus' = {}
    /\ rz_minus' = {}
    /\ rz_significant' = {}
    /\ todo' = GroupNames(ribozymes)
    /\ pc' = "groups"
    /\ UNCHANGED <<parserVars, ribozymes, cfg, caller, double_rz_ids,
                   single_rz_ids, ribozy_likes_ids, result, written, outcome>>

\* lines 106-141: the loop body for the next group
ProcessGroup ==
    /\ pc = "groups"
    /\ todo # {}
    /\ LET rz_name == FirstGroup(todo)
           acc == [rz_plus |-> rz_plus, rz_minus |-> rz_minus,
                   rz_significant |-> rz_significant]
           new == GroupBody(acc, rz_name, GroupOf(ribozymes, rz_name),
                            cfg, cutoffs)
       IN  /\ ~KeyErrorIn(cfg, cutoffs, rz_name)
           /\ rz_plus' = new.rz_plus
           /\ rz_minus' = new.rz_minus
           /\ rz_significant' = new.rz_significant
           /\ todo' = todo \ {rz_name}
    /\ UNCHANGED <<parserVars, ribozymes, cfg, caller, pc, cutoffs,
                   double_rz_ids, single_rz_ids, ribozy_likes_ids, result,
                   written, outcome>>

\* line 120: cutoffs[rz_name] on a name the dictionary lacks
GroupKeyError ==
    /\ pc = "groups"
    /\ todo # {}
    /\ KeyErrorIn(cfg, cutoffs, FirstGroup(todo))
    /\ pc' = "raised"
    /\ UNCHANGED <<parserVars, ribozymes, cfg, caller, cutoffs, todo, rz_plus,
                   rz_minus, rz_significant, double_rz_ids, single_rz_ids,
                   ribozy_likes_ids, result, written, outcome>>

\* lines 143-152: the derived sets, empty
NoViroidLike ==
    /\ pc = "groups"
    /\ todo = {}
    /\ LET double == DoubleRzIds(rz_plus, rz_minus)
           single == SingleRzIds(rz_significant, double)
           likes == RibozyLikesIds(double, single)
       IN  /\ likes = {}
           /\ double_rz_ids' = double
           /\ single_rz_ids' = single
           /\ ribozy_likes_ids' = likes
    /\ result' = NoneResult
    /\ pc' = "returned"
    /\ UNCHANGED <<parserVars, ribozymes, cfg, caller, cutoffs, todo, rz_plus,
                   rz_minus, rz_significant, written, outcome>>

\* lines 143-180: the derived sets, the three views, the optional file
ReturnViews ==
    /\ pc = "groups"
    /\ todo = {}
    /\ \E output_tsv \in IF caller = "easy_search" THEN {FALSE} ELSE BOOLEAN :
         LET double == DoubleRzIds(rz_plus, rz_minus)
             single == SingleRzIds(rz_significant, double)
             likes == RibozyLikesIds(double, single)
             views == Views(ribozymes, single, double, likes)
         IN  /\ likes # {}
             /\ double_rz_ids' = double
             /\ single_rz_ids' = single
             /\ ribozy_likes_ids' = likes
             /\ written' = (views.ribozy_likes # {} /\ output_tsv)
             /\ result' = views
    /\ pc' = "returned"
    /\ UNCHANGED <<parserVars, ribozymes, cfg, caller, cutoffs, todo, rz_plus,
                   rz_minus, rz_significant, outcome>>

\* ribozyme_filter_wrapper, lines 211-220: the result is dropped
WrapperDone ==
    /\ caller = "wrapper"
    /\ pc = "returned"
    /\ outcome = "running"
    /\ outcome' = "ok"
    /\ UNCHANGED <<parserVars, ribozymes, cfg, caller, pc, cutoffs, todo,
                   rz_plus, rz_minus, rz_significant, double_rz_ids,
                   single_rz_ids, ribozy_likes_ids, result, written>>

\* easy_search, lines 87-95: ribozymes["ribozy_likes"] on the result
EasySearchWriteSeqs ==
    /\ caller = "easy_search"
    /\ pc = "returned"
    /\ outcome = "running"
    /\ outcome' = IF result.kind = "None" THEN "TypeError" ELSE "ok"
    /\ UNCHANGED <<parserVars, ribozymes, cfg, caller, pc, cutoffs, todo,
                   rz_plus, rz_minus, rz_significant, double_rz_ids,
                   single_rz_ids, ribozy_likes_ids, result, written>>

\* neither caller catches the KeyError of the loop
KeyErrorPropagates ==
    /\ pc = "raised"
    /\ outcome = "running"
    /\ outcome' = "KeyError"
    /\ UNCHANGED <<parserVars, ribozymes, cfg, caller, pc, cutoffs, todo,
                   rz_plus, rz_minus, rz_significant, double_rz_ids,
                   single_rz_ids, ribozy_likes_ids, result, written>>

Next ==
    \/ NoRibozymes
    \/ StartAnalysis
    \/ ProcessGroup
    \/ GroupKeyError
    \/ NoViroidLike
    \/ ReturnViews
    \/ WrapperDone
    \/ EasySearchWriteSeqs
    \/ KeyErrorPropagates

Spec == Init /\ [][Next]_vars

TypeOK ==
    /\ pc \in {"idle", "start", "groups", "returned", "raised"}
    /\ outcome \in {"running", "ok", "TypeError", "KeyError"}
    /\ rz_plus \subseteq SeqIds

\* =================================================================== claims
\* ----------------------------------------------------------------------- C1
\* C1: once ribozyme_filter has processed all groups, double_rz_ids is the
\* intersection of rz_plus and rz_minus, single_rz_ids is rz_significant
\* without double_rz_ids, the two are disjoint and ribozy_likes_ids is
\* exactly their union.
C1_DerivedSets ==
    (pc = "returned" /\ ribozymes # {}) =>
        /\ single_rz_ids \cap double_rz_ids = {}
        /\ double_rz_ids = rz_plus \cap rz_minus
        /\ single_rz_ids = rz_significant \ double_rz_ids
        /\ ribozy_likes_ids = single_rz_ids \cup double_rz_ids

C1_Witness ==
    /\ pc = "returned"
    /\ double_rz_ids # {}
    /\ rz_significant \cap double_rz_ids # {}
    /\ ribozy_likes_ids = double_rz_ids

\* ----------------------------------------------------------------------- C2
MissingCutoffCase ==
    /\ cfg.use_cm_cutoff
    /\ DOMAIN cutoffs # {}
    /\ \E h \in ribozymes : h.ribozyme \notin DOMAIN cutoffs

\* C2: with the cutoff filter on and a profile of the hit table absent from
\* the non-empty cutoff table, the run does not abort; with the e-value
\* filter off and no evidence from another group it returns None.
C2_MissingCutoffNotFatal ==
    MissingCutoffCase =>
        /\ pc # "raised"
        /\ outcome # "KeyError"
        /\ (pc = "returned" /\ ~cfg.use_evalue_cutoff /\ rz_significant = {}
              /\ rz_plus \cap rz_minus = {})
             => result.kind = "None"

\* ----------------------------------------------------------------------- C3
HasCutoffEvidence(h) ==
    /\ cfg.use_cm_cutoff
    /\ h.ribozyme \in DOMAIN cutoffs
    /\ h.score > cutoffs[h.ribozyme][cfg.cm_cutoff_type]

\* evalue < sqrt(max_evalue), over the reals
BelowRoot(h) == h.evalue * h.evalue < cfg.max_evalue * Scale

StrandRule(h) ==
    HasCutoffEvidence(h) \/ (cfg.use_evalue_cutoff /\ BelowRoot(h))

SignificantRule(h) ==
    HasCutoffEvidence(h)
    \/ (cfg.use_evalue_cutoff /\ h.evalue < cfg.max_evalue)

\* C3: after all groups are processed, rz_plus holds exactly the seq_ids
\* with a '+' hit that scores above the cutoff of its own profile (cutoff
\* filter on, profile in the table) or has evalue < sqrt(max_evalue)
\* (e-value filter on); rz_minus likewise for '-' hits; rz_significant
\* exactly those with a hit above that cutoff or with evalue < max_evalue.
C3_BaseSetsExact ==
    (pc = "returned" /\ ribozymes # {}) =>
        /\ rz_plus =
             {h.seq_id : h \in {g \in ribozymes :
                                    g.strand = "+" /\ StrandRule(g)}}
        /\ rz_minus =
             {h.seq_id : h \in {g \in ribozymes :
                                    g.strand = "-" /\ StrandRule(g)}}
        /\ rz_significant =
             {h.seq_id : h \in {g \in ribozymes : SignificantRule(g)}}

C3_Witness ==
    /\ pc = "returned"
    /\ cfg.use_cm_cutoff
    /\ cfg.use_evalue_cutoff
    /\ DOMAIN cutoffs = {"A", "B"}
    /\ \E h \in ribozymes :
          /\ cfg.max_evalue <= h.evalue
          /\ BelowRoot(h)
          /\ h.strand = "+"
          /\ h.seq_id \in rz_plus
          /\ h.seq_id \notin rz_significant
    /\ \E h \in ribozymes :
          /\ h.ribozyme = "B"
          /\ h.score > cutoffs["B"][cfg.cm_cutoff_type]
          /\ h.score <= cutoffs["A"][cfg.cm_cutoff_type]
          /\ h.seq_id \in rz_significant

\* ----------------------------------------------------------------------- C4
Sentinels(lines) == {i \in 1..Len(lines) : lines[i].kw = "INFERNAL"}

\* the last line of the block that starts after position i
BlockEnd(lines, i) ==
    LET later == {j \in Sentinels(lines) : j > i}
    IN  IF later = {} THEN Len(lines)
        ELSE (CHOOSE j \in later : \A k \in later : j <= k) - 1

BlockLines(lines, i, kw) ==
    {j \in (i + 1)..BlockEnd(lines, i) : lines[j].kw = kw}

BlockName(lines, i) ==
    LET ns == BlockLines(lines, i, "NAME")
    IN  lines[CHOOSE j \in ns : \A k \in ns : k <= j].name

BlockValue(lines, i, kw) ==
    LET ls == BlockLines(lines, i, kw)
    IN  IF ls = {} THEN 0 ELSE lines[CHOOSE j \in ls : TRUE].val

\* k >= 1 blocks, each opened by a sentinel line and holding one NAME line
\* and at most one line of each cutoff kind, the names all different
WellFormedCm(lines) ==
    /\ Len(lines) >= 1
    /\ lines[1].kw = "INFERNAL"
    /\ \A i \in Sentinels(lines) :
          /\ Cardinality(BlockLines(lines, i, "NAME")) = 1
          /\ \A kw \in CmCutoffType :
                Cardinality(BlockLines(lines, i, kw)) <= 1
    /\ \A i, j \in Sentinels(lines) :
          i # j => BlockName(lines, i) # BlockName(lines, j)

\* C4: for a cutoff file of k >= 1 blocks with distinct names whose last
\* block is closed by the end of input, parse_cm_file returns exactly k
\* entries, one per block name, each with the GA/TC/NC values of its own
\* block and 0.0 for a kind the block does not give.
C4_EndOfInputFlush ==
    (pcP = "done" /\ WellFormedCm(cmLines)) =>
        /\ DOMAIN table =
             {BlockName(cmLines, i) : i \in Sentinels(cmLines)}
        /\ Cardinality(DOMAIN table) = Cardinality(Sentinels(cmLines))
        /\ \A i \in Sentinels(cmLines) : \A kw \in CmCutoffType :
              table[BlockName(cmLines, i)][kw] = BlockValue(cmLines, i, kw)

C4_Witness ==
    /\ pcP = "done"
    /\ WellFormedCm(cmLines)
    /\ Cardinality(Sentinels(cmLines)) = 2
    /\ BlockValue(cmLines, 1, "GA") = 45
    /\ DOMAIN table = {"A", "B"}
    /\ \E n \in DOMAIN table : table[n].GA = 0

\* ----------------------------------------------------------------------- C5
\* C5: ribozyme_filter returns None exactly when the hit table has no rows
\* or when ribozy_likes_ids is empty after all groups were processed, and
\* then writes no file; in every other case it returns the three views,
\* the combined one non-empty.
C5_NoneExactlyWhenNoData ==
    pc \in {"returned", "raised"} =>
        IF ribozymes = {}
              \/ (todo = {} /\ RibozyLikesIds(
                                   DoubleRzIds(rz_plus, rz_minus),
                                   SingleRzIds(rz_significant,
                                       DoubleRzIds(rz_plus, rz_minus))) = {})
        THEN pc = "returned" /\ result.kind = "None" /\ ~written
        ELSE /\ pc = "returned"
             /\ result.kind = "views"
             /\ result.ribozy_likes # {}

\* ----------------------------------------------------------------------- C6
SortedGroups(df) ==
    LET names == GroupNames(df)
    IN  CHOOSE order \in [1..Cardinality(names) -> names] :
            \A i, j \in 1..Cardinality(names) :
                i < j => Rank(order[i]) < Rank(order[j])

\* the base sets ribozyme_filter builds for the given arguments
Classify(df, c, cuts) == RunGroups(EmptySets, SortedGroups(df), 1, df, c, cuts)

LikesOf(sets) ==
    LET double == DoubleRzIds(sets.rz_plus, sets.rz_minus)
    IN  RibozyLikesIds(double, SingleRzIds(sets.rz_significant, double))

\* C6: for the same hit table, cutoff table and flags, rz_significant and
\* ribozy_likes_ids computed with a smaller max_evalue are subsets of those
\* computed with a larger one.
C6_MonotoneInMaxEvalue ==
    (pc = "returned" /\ ribozymes # {}) =>
        \A m1 \in MaxEvalues :
            m1 <= cfg.max_evalue =>
                LET low == Classify(ribozymes,
                                    [cfg EXCEPT !.max_evalue = m1], cutoffs)
                IN  /\ low.rz_significant \subseteq rz_significant
                    /\ LikesOf(low) \subseteq ribozy_likes_ids

C6_Witness ==
    /\ pc = "returned"
    /\ cfg.use_evalue_cutoff
    /\ \E m1 \in MaxEvalues :
          /\ m1 < cfg.max_evalue
          /\ LET low == Classify(ribozymes,
                                 [cfg EXCEPT !.max_evalue = m1], cutoffs)
             IN  /\ low.rz_significant # rz_significant
                 /\ LikesOf(low) # {}
                 /\ LikesOf(low) # ribozy_likes_ids

\* ----------------------------------------------------------------------- C7
EvalueTestsNested ==
    /\ \A h \in ribozymes :
          EvalueBelow(h, cfg.max_evalue)
              => EvalueBelow(h, StrandThreshold(cfg.max_evalue))
    /\ EvalueSignificant(ribozymes, cfg.max_evalue)
           \subseteq rz_plus \cup rz_minus

\* C7 as stated: with the e-value filter on, for any max_evalue > 0 every
\* hit with evalue < max_evalue also has evalue < sqrt(max_evalue), so the
\* seq_ids the e-value test puts into rz_significant are in rz_plus or
\* rz_minus.
C7_StrandTestLooser ==
    (pc = "returned" /\ ribozymes # {} /\ cfg.use_evalue_cutoff)
        => EvalueTestsNested

\* C7 amended: the same for 0 < max_evalue <= 1.
C7_StrandTestLooserUpToOne ==
    (pc = "returned" /\ ribozymes # {} /\ cfg.use_evalue_cutoff
       /\ cfg.max_evalue <= Scale)
        => EvalueTestsNested

C7_Witness ==
    /\ pc = "returned"
    /\ cfg.use_evalue_cutoff
    /\ ~cfg.use_cm_cutoff
    /\ cfg.max_evalue <= Scale
    /\ \E h \in ribozymes :
          h.evalue < cfg.max_evalue /\ h.seq_id \in rz_significant

\* ----------------------------------------------------------------------- C8
\* C8: whenever ribozyme_filter returns None, its caller finishes without
\* raising: ribozyme_filter_wrapper and the extraction step of easy_search.
C8_NoDataNeverRaises ==
    (pc = "returned" /\ result.kind = "None" /\ outcome # "running")
        => outcome = "ok"

\* ----------------------------------------------------------------------- C9
Orders(names) ==
    {order \in [1..Cardinality(names) -> names] :
        \A i, j \in 1..Cardinality(names) : i # j => order[i] # order[j]}

Partial(rz_name) ==
    GroupBody(EmptySets, rz_name, GroupOf(ribozymes, rz_name), cfg, cutoffs)

\* C9: the final rz_plus, rz_minus and rz_significant are the same for
\* every order of the groups and equal the union of the sets each group
\* yields on its own.
C9_GroupOrderIndependent ==
    (pc = "returned" /\ ribozymes # {}) =>
        LET final == [rz_plus |-> rz_plus, rz_minus |-> rz_minus,
                      rz_significant |-> rz_significant]
            names == GroupNames(ribozymes)
        IN  /\ \A order \in Orders(names) :
                  RunGroups(EmptySets, order, 1, ribozymes, cfg, cutoffs)
                      = final
            /\ rz_plus = UNION {Partial(n).rz_plus : n \in names}
            /\ rz_minus = UNION {Partial(n).rz_minus : n \in names}
            /\ rz_significant =
                  UNION {Partial(n).rz_significant : n \in names}

C9_Witness ==
    /\ pc = "returned"
    /\ GroupNames(ribozymes) = {"A", "B"}
    /\ \E s \in double_rz_ids :
          /\ s \in Partial("A").rz_plus
          /\ s \notin Partial("A").rz_minus
          /\ s \in Partial("B").rz_minus
          /\ s \notin Partial("B").rz_plus

\* ---------------------------------------------------------------------- C10
\* the names of the blocks that hold a NAME line, the stretch before the
\* first sentinel included
NamedBlocks(lines) ==
    {BlockName(lines, i) :
        i \in {j \in {0} \cup Sentinels(lines) :
                  BlockLines(lines, j, "NAME") # {}}}

\* C10: every key of the table parse_cm_file returns comes from a NAME
\* line; the table has no entry for the empty name and as many entries as
\* there are distinct named blocks.
C10_KeysAreNames ==
    pcP = "done" =>
        /\ "" \notin DOMAIN table
        /\ DOMAIN table \subseteq
             {cmLines[j].name :
                 j \in {k \in 1..Len(cmLines) : cmLines[k].kw = "NAME"}}
        /\ Cardinality(DOMAIN table) = Cardinality(NamedBlocks(cmLines))
====
